---- MODULE Spec2Model ----
(***************************************************************************)
(* Container Manager (container-manager/main.py): the registry-gated       *)
(* sandbox launcher, the session table, the TTL reaper and the lifecycle   *)
(* handlers, as a state machine.                                           *)
(*                                                                         *)
(* Python values are encoded as follows.  An Optional value is a sequence  *)
(* of length at most one: << >> is None, <<v>> is v.  A string produced by *)
(* the engine is represented by its length.  Timestamps are seconds.       *)
(***************************************************************************)
EXTENDS Integers, Sequences, FiniteSets, TLC

\* ------------------------------------------------------------ CONFIG
MAX_OUTPUT_LENGTH == 10000
DEFAULT_SESSION_TTL == 300
MAX_SESSION_TTL == 3600
CLEANUP_INTERVAL == 30

\* ------------------------------------------------------------ bounds
\* containers the engine hands out in one run
MaxContainers == 2
\* clock advances in one run
MaxTicks == 1
\* whole days the clock can run ahead of a session
MaxDays == 1
\* extend calls in one run
MaxExtends == 2

VARIABLES
    registry,           \* content of the file at REGISTRY_PATH
    docker_client,      \* _docker_client is not None
    docker_available,   \* _docker_available: "None", "True", "False"
    health_pc,          \* a /health request inside get_docker_client
    active_containers,  \* container_id -> session info
    containers,         \* the engine: container_id -> status
    next_id,            \* the engine's next container id
    next_uuid,          \* uuid.uuid4(): the next fresh value
    now,                \* datetime.now()
    extend_calls,       \* extend requests served so far
    run_options,        \* container_id -> the options its run call carried
    cleanup_task,       \* lifespan: "sleeping", "done" (cancelled and awaited), "down"
    threads,            \* worker threads inside a handler: position and locals
    last                \* the response on its way to the client

vars == <<registry, docker_client, docker_available, health_pc,
          active_containers, containers, next_id, next_uuid, now,
          extend_calls, run_options, cleanup_task, threads, last>>

\* ------------------------------------------------------------ helpers
None == << >>

Some(v) == <<v>>

Min(a, b) == IF a <= b THEN a ELSE b

Max(a, b) == IF a >= b THEN a ELSE b

\* d[k] = v
Put(d, k, v) == [x \in DOMAIN d \cup {k} |-> IF x = k THEN v ELSE d[x]]

\* del d[k]
Del(d, k) == [x \in DOMAIN d \ {k} |-> d[x]]

\* s[:n] on a string of length s
Slice(s, n) == Min(s, n)

\* ------------------------------------------------------------ inputs
ProfileNames == {"python-sandbox", "web-tools", "shell", "rogue"}

\* a profile of the catalog; network_mode is security.network_mode, None
\* when the key is absent; build_context: the profile declares one
SandboxConfig ==
    [description |-> "Python sandbox", build_context |-> TRUE,
     network_mode |-> Some("none")]

Catalog ==
    [n \in {"python-sandbox", "web-tools", "shell"} |->
        CASE n = "python-sandbox" -> Some(SandboxConfig)
          [] n = "web-tools" -> Some([description |-> "Web tools", build_context |-> FALSE,
                                      network_mode |-> Some("bridge")])
          [] OTHER -> Some([description |-> "Shell", build_context |-> FALSE,
                            network_mode |-> None])]

\* registry.yaml as it may be found on disk: unreadable or unparseable, an
\* empty document (safe_load gives None), "containers:" left empty (None),
\* and a catalog with one profile.
RegistryFiles ==
    { [readable |-> FALSE, doc |-> None],
      [readable |-> TRUE,  doc |-> None],
      [readable |-> TRUE,  doc |-> Some([containers |-> None])],
      [readable |-> TRUE, doc |-> Some([containers |-> Some(Catalog)])] }

CodeKinds == {"none", "empty", "text"}

TtlRequests == {None, Some(0), Some(5), Some(9999), Some(0 - 5)}

ExtendValues == {0 - 600, 9999}

\* what exec_run may hand back with demux=True: (stdout, stderr), each None
\* or bytes; bytes are given by the length of their text, or are not UTF-8
EngineOutputs ==
    { [out |-> None, err |-> None, utf8 |-> TRUE],
      [out |-> Some(MAX_OUTPUT_LENGTH), err |-> Some(MAX_OUTPUT_LENGTH + 1), utf8 |-> TRUE],
      [out |-> Some(2 * MAX_OUTPUT_LENGTH), err |-> None, utf8 |-> TRUE],
      [out |-> Some(5), err |-> Some(5), utf8 |-> FALSE] }

ContainerIds == 1 .. MaxContainers

SessionIds == 1 .. MaxContainers

\* ------------------------------------------------------------ responses
NoResponse ==
    [op |-> "none", code |-> 0, status |-> "", name |-> "", cid |-> 0, sid |-> 0,
     keep_alive |-> FALSE, code_kind |-> "none", stdout |-> 0 - 1, stderr |-> 0 - 1,
     tracked_before |-> FALSE, prev |-> "", unchanged |-> TRUE, new_ttl |-> 0 - 1,
     activity_before |-> 0 - 1, prev_running |-> FALSE,
     raised |-> "", missing |-> {}, calls |-> {}, before |-> None,
     stopped |-> {}, profiles |-> {}, enable_ttyd |-> FALSE,
     count |-> 0, listing |-> << >>, session |-> None, delta |-> 0]

\* ------------------------------------------------------------ threads
\* the workers of the thread pool that are followed statement by statement
Threads == {"a", "b"}

\* a worker outside every handler; its locals: the profile name and the
\* container id addressed, the snapshot it holds (snap; taken: the values
\* it had when it was obtained; seen: the values read from it), the answer
\* of get_docker_client (got), the profile that passed the authorization,
\* the profile the options are shaped from, the status code it answers
IdleThread ==
    [pc |-> "idle", op |-> "", name |-> "", cid |-> 0,
     snap |-> << >>, taken |-> << >>, seen |-> << >>,
     got |-> "", authorized |-> None, config |-> None, code |-> 0, at |-> 0]

\* no response is on its way: the next request can be served
Idle == last = NoResponse /\ cleanup_task = "sleeping"

\* ------------------------------------------------------------ registry
\* mutant: an unreadable registry file is passed on as no document
load_registry_raises == IF registry.readable THEN registry.doc ELSE None

load_registry ==
    IF registry.readable THEN registry.doc
    ELSE Some([containers |-> Some(<< >>)])

\* mutant: a name the catalog does not have gets the sandbox profile
get_container_config_fallback(name) == [raised |-> FALSE, value |-> Some(SandboxConfig)]

\* registry.get("containers", {}).get(name); raised: an AttributeError
\* because the document or its "containers" entry is None
get_container_config(name) ==
    LET reg == load_registry IN
    IF reg = None THEN [raised |-> TRUE, value |-> None]
    ELSE IF reg[1].containers = None THEN [raised |-> TRUE, value |-> None]
    ELSE LET cs == reg[1].containers[1] IN
         [raised |-> FALSE,
          value |-> IF name \in DOMAIN cs THEN cs[name] ELSE None]

is_container_allowed(name) ==
    LET cfg == get_container_config(name) IN
    [raised |-> cfg.raised, value |-> cfg.value # None]

\* ------------------------------------------------------------ engine client
ConnectOutcomes == {"ok", "connect_fail", "ping_fail"}

\* the globals after the call and what the call returns (TRUE: a client)
get_docker_client(o) ==
    IF docker_available = "False"
    THEN [client |-> docker_client, available |-> docker_available, result |-> FALSE]
    ELSE IF ~docker_client
    THEN CASE o = "ok" -> [client |-> TRUE, available |-> "True", result |-> TRUE]
           [] o = "connect_fail" -> [client |-> FALSE, available |-> "False", result |-> FALSE]
           [] OTHER -> [client |-> TRUE, available |-> "False", result |-> FALSE]
    ELSE [client |-> docker_client, available |-> docker_available, result |-> TRUE]

\* ------------------------------------------------------------ session table
\* mutant: the session id is taken from a fixed seed instead of uuid4()
track_container_fixed_id(table, container_id, info) ==
    Put(table, container_id,
        [name |-> info.name, persistent |-> info.persistent,
         ttl_seconds |-> info.ttl_seconds, ttyd_enabled |-> info.ttyd_enabled,
         session_id |-> 1, started_at |-> now, last_activity |-> now])

\* mutant: last_activity is left at the epoch
track_container_unset(table, container_id, info) ==
    Put(table, container_id,
        [name |-> info.name, persistent |-> info.persistent,
         ttl_seconds |-> info.ttl_seconds, ttyd_enabled |-> info.ttyd_enabled,
         session_id |-> next_uuid, started_at |-> now, last_activity |-> 0])

\* session_id, started_at and last_activity are not in the info that
\* container_start passes: all three are set here, the two timestamps from
\* two successive datetime.now()
track_container(table, container_id, info) ==
    Put(table, container_id,
        [name |-> info.name, persistent |-> info.persistent,
         ttl_seconds |-> info.ttl_seconds, ttyd_enabled |-> info.ttyd_enabled,
         session_id |-> next_uuid, started_at |-> now, last_activity |-> now])

\* mutant: the touch is lost
update_container_activity_lost(table, container_id) == table

\* mutant: the touch writes the record whether or not the id is tracked
update_container_activity_upsert(table, container_id) ==
    Put(table, container_id,
        IF container_id \in DOMAIN table
        THEN [table[container_id] EXCEPT !.last_activity = now]
        ELSE [name |-> "", persistent |-> FALSE, ttl_seconds |-> DEFAULT_SESSION_TTL,
              ttyd_enabled |-> FALSE, session_id |-> 0, started_at |-> now,
              last_activity |-> now])

update_container_activity(table, container_id) ==
    IF container_id \in DOMAIN table
    THEN [table EXCEPT ![container_id].last_activity = now]
    ELSE table

\* mutant: the record is left in the table
untrack_container_kept(table, container_id) == table

untrack_container(table, container_id) ==
    IF container_id \in DOMAIN table THEN Del(table, container_id) ELSE table

\* mutant: the sweep leaves the records in the table
untrack_all_kept(table, ids) == table

RECURSIVE untrack_all(_, _)
\* untrack_container for every id of ids
untrack_all(table, ids) ==
    IF ids = {} THEN table
    ELSE LET c == CHOOSE x \in ids : TRUE IN
         untrack_all(untrack_container(table, c), ids \ {c})

\* mutant: every id passes for tracked
is_container_tracked_always(container_id) == TRUE

is_container_tracked(container_id) == container_id \in DOMAIN active_containers

get_tracked_containers == active_containers

\* ------------------------------------------------------------ engine calls
EngineOutcomes == {"ok", "api_error"}

\* a call on a container handle can also find the container removed
\* since the handle was obtained
HandleOutcomes == EngineOutcomes \cup {"not_found"}

RunOutcomes == {"ok", "image_not_found", "api_error"}

\* the engine's answers to the calls one handler makes, in call order; a
\* handler stops calling at the first answer that raises
AllOk ==
    [connect |-> "ok", run |-> "ok", get |-> "ok", inject |-> "ok", exec |-> "ok",
     output |-> [out |-> None, err |-> None, utf8 |-> TRUE],
     stop |-> "ok", remove |-> "ok"]

\* from_env() and ping() are called only while no client is stored
Connecting == docker_available # "False" /\ ~docker_client

ConnectChoices == IF Connecting THEN ConnectOutcomes ELSE {"ok"}

ConnectAnswers == {[AllOk EXCEPT !.connect = c] : c \in ConnectChoices \ {"ok"}}

StopAnswers ==
    {[AllOk EXCEPT !.stop = s, !.remove = r] :
        s \in EngineOutcomes, r \in EngineOutcomes} \ {[AllOk EXCEPT !.stop = "api_error", !.remove = "api_error"]}

\* the container is removed behind the handler's back before stop is called
StopVanished == [AllOk EXCEPT !.stop = "not_found"]

ExecAnswers(outputs) ==
    ConnectAnswers
    \cup {[AllOk EXCEPT !.get = "api_error"]}
    \cup {[AllOk EXCEPT !.exec = e] : e \in HandleOutcomes \ {"ok"}}
    \cup {[AllOk EXCEPT !.output = o] : o \in outputs}

HandleAnswers ==
    ConnectAnswers \cup {[AllOk EXCEPT !.get = "api_error"]} \cup StopAnswers
    \cup {StopVanished}

\* x.decode() if x else ""
Decode(x) == IF x = None THEN 0 ELSE x[1]

\* mutant: the stream is passed on whole
Truncate_none(s) == s

\* stdout[:MAX_OUTPUT_LENGTH]
Truncate(s) == Slice(s, MAX_OUTPUT_LENGTH)

\* exit_code/stdout/stderr of an exec_run answer; raised: decode() failed
execution_result(output) ==
    IF ~output.utf8 /\ (output.out # None \/ output.err # None)
    THEN [raised |-> TRUE, stdout |-> 0 - 1, stderr |-> 0 - 1]
    ELSE [raised |-> FALSE,
          stdout |-> Truncate(Decode(output.out)),
          stderr |-> Truncate(Decode(output.err))]

\* mutant: the container is stopped and never removed
engine_stop_only(engine, container_id, eo) ==
    IF eo.stop = "not_found" THEN Del(engine, container_id)
    ELSE IF eo.stop # "ok" THEN engine
    ELSE [engine EXCEPT ![container_id] = "exited"]

\* container.stop(timeout=5); container.remove() on the engine
engine_stop_remove(engine, container_id, eo) ==
    IF eo.stop = "not_found" THEN Del(engine, container_id)
    ELSE IF eo.stop # "ok" THEN engine
    ELSE IF eo.remove # "ok" THEN [engine EXCEPT ![container_id] = "exited"]
    ELSE Del(engine, container_id)

\* ------------------------------------------------------------ container_start
StartRequests ==
    [container_name : ProfileNames, code : CodeKinds, keep_alive : BOOLEAN,
     ttl_seconds : TtlRequests, enable_ttyd : BOOLEAN]

\* the answers the engine can give to the calls a start request leads to
StartAnswersFor(req, outputs) ==
    ConnectAnswers
    \cup {[AllOk EXCEPT !.run = r] : r \in RunOutcomes}
    \cup IF req.code # "text" THEN {}
         ELSE {[AllOk EXCEPT !.inject = e] : e \in HandleOutcomes \ {"ok"}}
              \cup {[AllOk EXCEPT !.exec = "api_error"]}
              \cup {[a EXCEPT !.output = o] :
                       a \in IF req.keep_alive THEN {AllOk}
                             ELSE StopAnswers \cup {StopVanished},
                       o \in outputs}

\* from_env() and ping() as far as get_docker_client gets with answer o
ConnectCalls(o) ==
    IF ~Connecting THEN {}
    ELSE IF o = "connect_fail" THEN {"from_env"} ELSE {"from_env", "ping"}

\* mutant: the profile's isolation is kept when ttyd is enabled
container_options_isolated(config, enable_ttyd) ==
    LET network_mode == IF config.network_mode = None THEN "none"
                        ELSE config.network_mode[1]
    IN  [network_mode |-> IF network_mode = "none" THEN Some("none") ELSE None,
         ports |-> enable_ttyd]

\* container_options as far as the network goes: the network_mode option
\* (None: not passed, the engine's default applies) and the 7681/tcp port
container_options(config, enable_ttyd) ==
    LET network_mode == IF config.network_mode = None THEN "none"
                        ELSE config.network_mode[1]
        isolated == IF network_mode = "none" THEN Some("none") ELSE None
    IN  [network_mode |-> IF enable_ttyd /\ network_mode = "none" THEN None
                          ELSE isolated,
         ports |-> enable_ttyd]

\* request.ttl_seconds or DEFAULT_SESSION_TTL, capped
session_ttl(ttl_seconds) ==
    Min(IF ttl_seconds = None \/ ttl_seconds[1] = 0
        THEN DEFAULT_SESSION_TTL ELSE ttl_seconds[1],
        MAX_SESSION_TTL)

\* "if not request.keep_alive and result": stop, remove, untrack, and the
\* bare except that ends the block at the first call that raises
one_shot_cleanup(table, engine, container_id, eo) ==
    [engine |-> engine_stop_remove(engine, container_id, eo),
     table  |-> IF eo.stop = "ok" /\ eo.remove = "ok"
                THEN untrack_container(table, container_id) ELSE table]

get_container_session(table, container_id) ==
    IF container_id \in DOMAIN table THEN Some(table[container_id]) ELSE None

\* mutant: the session sub-object is built for every start
session_object_always(keep_alive, session_id, session_info) ==
    Some([session_id |-> session_id, persistent |-> keep_alive,
          ttl_seconds |-> session_info.ttl_seconds])

\* "session" of the response
session_object(keep_alive, session_id, session_info) ==
    IF keep_alive
    THEN Some([session_id |-> session_id, persistent |-> keep_alive,
               ttl_seconds |-> session_info.ttl_seconds])
    ELSE None

\* the handler from run on: the table, the engine and the response; the
\* ttyd bring-up (exec_run, reload, ports) only decides ttyd_url and its
\* failures are swallowed
start_container(req, eo) ==
    LET container_id == next_id
        session_info == [name |-> req.container_name, persistent |-> req.keep_alive,
                         ttl_seconds |-> session_ttl(req.ttl_seconds),
                         ttyd_enabled |-> req.enable_ttyd]
        tracked == track_container(active_containers, container_id, session_info)
        running == Put(containers, container_id, "running")
        session_id == get_container_session(tracked, container_id)[1].session_id
        started == [NoResponse EXCEPT !.op = "start", !.name = req.container_name,
                    !.keep_alive = req.keep_alive, !.code_kind = req.code,
                    !.enable_ttyd = req.enable_ttyd, !.cid = container_id]
        base == [started EXCEPT !.session =
                    session_object(req.keep_alive, session_id, session_info)]
        failed == [started EXCEPT !.code = 500, !.status = "start_failed"]
        ttyd == IF req.enable_ttyd THEN {"exec_run", "reload"} ELSE {}
    IN  IF req.code = "text"
        THEN IF eo.inject = "not_found"
             THEN [table |-> tracked, engine |-> containers,
                   resp |-> [failed EXCEPT !.raised = "NotFound", !.missing = {container_id},
                                !.calls = ttyd \cup {"put_archive"}]]
             ELSE IF eo.inject # "ok"
             THEN [table |-> tracked, engine |-> running,
                   resp |-> [failed EXCEPT !.raised = "APIError",
                                !.calls = ttyd \cup {"put_archive"}]]
             ELSE IF eo.exec # "ok"
             THEN [table |-> tracked, engine |-> running,
                   resp |-> [failed EXCEPT !.raised = "APIError",
                                !.calls = ttyd \cup {"put_archive", "exec_run"}]]
             ELSE LET result == execution_result(eo.output) IN
                  IF result.raised
                  THEN [table |-> tracked, engine |-> running,
                        resp |-> [failed EXCEPT !.raised = "UnicodeDecodeError",
                                     !.calls = ttyd \cup {"put_archive", "exec_run"}]]
                  ELSE LET after == IF ~req.keep_alive
                                    THEN one_shot_cleanup(tracked, running, container_id, eo)
                                    ELSE [table |-> tracked, engine |-> running]
                       IN [table |-> after.table, engine |-> after.engine,
                           resp |-> [base EXCEPT !.code = 200, !.status = "started",
                                        !.stdout = result.stdout, !.stderr = result.stderr,
                                        !.missing = IF ~req.keep_alive /\ eo.stop = "not_found"
                                                    THEN {container_id} ELSE {},
                                        !.calls = ttyd \cup {"put_archive", "exec_run"}
                                            \cup IF req.keep_alive THEN {}
                                                 ELSE IF eo.stop = "ok" THEN {"stop", "remove"}
                                                 ELSE {"stop"}]]
        ELSE [table |-> tracked, engine |-> running,
              resp |-> [base EXCEPT !.code = 200, !.status = "started", !.calls = ttyd]]

container_start(req, eo) ==
    LET allowed == is_container_allowed(req.container_name)
        config == get_container_config(req.container_name)
        gc == get_docker_client(eo.connect)
        base == [NoResponse EXCEPT !.op = "start", !.name = req.container_name,
                    !.keep_alive = req.keep_alive, !.code_kind = req.code,
                    !.enable_ttyd = req.enable_ttyd]
    IN  IF allowed.raised
        THEN /\ last' = [base EXCEPT !.code = 500, !.status = "internal_error"]
             /\ UNCHANGED <<docker_client, docker_available, active_containers,
                            containers, next_id, next_uuid, run_options>>
        ELSE IF ~allowed.value
        THEN /\ last' = [base EXCEPT !.code = 403, !.status = "not_allowed"]
             /\ UNCHANGED <<docker_client, docker_available, active_containers,
                            containers, next_id, next_uuid, run_options>>
        ELSE IF config.raised \/ config.value = None
        THEN \* config.get on None: an AttributeError outside the try
             /\ last' = [base EXCEPT !.code = 500, !.status = "internal_error"]
             /\ UNCHANGED <<docker_client, docker_available, active_containers,
                            containers, next_id, next_uuid, run_options>>
        ELSE LET \* build_image_if_needed gets the client first and builds
                 \* when the profile has a build_context; a failed build is
                 \* passed over
                 build == IF gc.result /\ config.value[1].build_context
                          THEN {"build"} ELSE {}
                 before_run == ConnectCalls(eo.connect) \cup build
             IN
             /\ docker_client' = gc.client
             /\ docker_available' = gc.available
             /\ IF ~gc.result
                THEN \* HTTPException(503) raised inside the try, caught by
                     \* "except Exception" and answered as 500
                     /\ last' = [base EXCEPT !.code = 500, !.status = "start_failed",
                                    !.raised = "HTTPException", !.calls = before_run]
                     /\ UNCHANGED <<active_containers, containers, next_id, next_uuid,
                                    run_options>>
                ELSE IF eo.run # "ok"
                THEN /\ last' = [base EXCEPT
                                    !.code = IF eo.run = "image_not_found" THEN 404 ELSE 500,
                                    !.status = IF eo.run = "image_not_found"
                                               THEN "image_missing" ELSE "start_failed",
                                    !.raised = IF eo.run = "image_not_found"
                                               THEN "ImageNotFound" ELSE "APIError",
                                    !.calls = before_run \cup {"run"}]
                     /\ UNCHANGED <<active_containers, containers, next_id, next_uuid,
                                    run_options>>
                ELSE LET r == start_container(req, eo) IN
                     /\ next_id <= MaxContainers
                     /\ active_containers' = r.table
                     /\ containers' = r.engine
                     /\ run_options' = Put(run_options, next_id,
                                           container_options(config.value[1], req.enable_ttyd))
                     /\ next_id' = next_id + 1
                     /\ next_uuid' = next_uuid + 1
                     /\ last' = [r.resp EXCEPT
                                    !.calls = before_run \cup {"run"} \cup r.resp.calls]

StartOf(requests, outputs) ==
    /\ Idle
    /\ \E req \in requests : \E eo \in StartAnswersFor(req, outputs) :
        /\ container_start(req, eo)
        /\ UNCHANGED <<registry, threads, health_pc, now, extend_calls, cleanup_task>>

\* ------------------------------------------------------------ container_exec
\* mutant: no exception is taken for a vanished container
is_not_found_never(e) == FALSE

\* mutant: every exception is taken for a vanished container
is_not_found_always(e) == TRUE

\* "NotFound" in str(type(e))
is_not_found(e) == e \in {"NotFound", "ImageNotFound"}

\* what the try block of container_exec raises ("": it returns)
exec_raises(container_id, available, eo) ==
    IF ~available THEN "HTTPException"
    ELSE IF container_id \notin DOMAIN containers THEN "NotFound"
    ELSE IF eo.get # "ok" THEN "APIError"
    ELSE IF eo.exec = "not_found" THEN "NotFound"
    ELSE IF eo.exec # "ok" \/ containers[container_id] # "running" THEN "APIError"
    ELSE IF execution_result(eo.output).raised THEN "UnicodeDecodeError"
    ELSE ""

\* the engine calls the try block gets to
exec_calls(container_id, available, eo) ==
    ConnectCalls(eo.connect)
    \cup IF ~available THEN {}
         ELSE IF container_id \notin DOMAIN containers \/ eo.get # "ok" THEN {"get"}
         ELSE {"get", "exec_run"}

container_exec(container_id, eo) ==
    LET gc == get_docker_client(eo.connect)
        touched == update_container_activity(active_containers, container_id)
        tracked == container_id \in DOMAIN active_containers
        e == exec_raises(container_id, gc.result, eo)
        vanished == gc.result /\ container_id \in DOMAIN containers /\ eo.get = "ok"
                    /\ eo.exec = "not_found"
        base == [NoResponse EXCEPT !.op = "exec", !.cid = container_id,
                    !.tracked_before = tracked,
                    !.prev = IF last.op = "exec" /\ last.cid = container_id
                             THEN last.status ELSE "",
                    !.before = IF tracked THEN Some(active_containers[container_id])
                               ELSE None,
                    !.activity_before = IF tracked
                                        THEN active_containers[container_id].last_activity
                                        ELSE 0 - 1]
    IN  IF ~is_container_tracked(container_id)
        THEN /\ last' = [base EXCEPT !.code = 404, !.status = "not_found"]
             /\ UNCHANGED <<docker_client, docker_available, active_containers, containers>>
        ELSE /\ docker_client' = gc.client
             /\ docker_available' = gc.available
             /\ containers' = IF vanished THEN Del(containers, container_id) ELSE containers
             /\ LET before == [base EXCEPT !.raised = e,
                                  !.calls = exec_calls(container_id, gc.result, eo),
                                  !.missing = IF e = "NotFound" /\ tracked
                                              THEN {container_id} ELSE {}] IN
                IF e = ""
                THEN /\ active_containers' = touched
                     /\ last' = [before EXCEPT !.code = 200, !.status = "ok",
                                    !.stdout = execution_result(eo.output).stdout,
                                    !.stderr = execution_result(eo.output).stderr]
                ELSE IF is_not_found(e)
                THEN /\ active_containers' = untrack_container(touched, container_id)
                     /\ last' = [before EXCEPT !.code = 404, !.status = "gone"]
                ELSE /\ active_containers' = touched
                     /\ last' = [before EXCEPT !.code = 500, !.status = "exec_failed"]

ExecOf(outputs) ==
    /\ Idle
    /\ \E container_id \in ContainerIds, eo \in ExecAnswers(outputs) :
        /\ container_exec(container_id, eo)
        /\ UNCHANGED <<registry, threads, health_pc, next_id, next_uuid, now,
                       extend_calls, run_options, cleanup_task>>

\* exec(id) answered that the container is gone, followed by exec(id)
ExecAgain ==
    /\ last.op = "exec"
    /\ last.status = "gone"
    /\ \E eo \in {AllOk, [AllOk EXCEPT !.exec = "api_error"]} :
          /\ container_exec(last.cid, eo)
          /\ UNCHANGED <<registry, threads, health_pc, next_id, next_uuid, now,
                         extend_calls, run_options, cleanup_task>>

\* ------------------------------------------------------------ container_stop
\* mutant: a container that is not found is answered as an engine error
stop_status_strict(available, exists, state, eo) ==
    IF ~available THEN "no_docker"
    ELSE IF ~exists \/ eo.get # "ok" THEN "error_but_cleaned"
    ELSE IF state = "exited" THEN "stopped"
    ELSE IF eo.stop = "ok" /\ eo.remove = "ok" THEN "stopped"
    ELSE "error_but_cleaned"

\* the "status" of the answer: the return statement the handler reaches
stop_status(available, exists, state, eo) ==
    IF ~available THEN "no_docker"
    ELSE IF ~exists THEN "already_stopped"
    ELSE IF eo.get # "ok" THEN "error_but_cleaned"
    ELSE IF state = "exited" THEN "stopped"
    ELSE IF eo.stop = "not_found" THEN "already_stopped"
    ELSE IF eo.stop = "ok" /\ eo.remove = "ok" THEN "stopped"
    ELSE "error_but_cleaned"

container_stop(container_id, eo) ==
    LET gc == get_docker_client(eo.connect)
        untracked == untrack_container(active_containers, container_id)
        exists == container_id \in DOMAIN containers
        base == [NoResponse EXCEPT !.op = "stop", !.cid = container_id, !.code = 200,
                    !.tracked_before = is_container_tracked(container_id),
                    !.prev_running = exists /\ containers[container_id] = "running",
                    !.prev = IF last.op = "stop" /\ last.cid = container_id
                             THEN IF last.prev_running /\ last.tracked_before
                                  THEN last.status ELSE "other"
                             ELSE ""]
        engine == IF ~gc.result \/ ~exists \/ eo.get # "ok" THEN containers
                  ELSE IF containers[container_id] = "exited"
                  THEN IF eo.remove = "ok" THEN Del(containers, container_id) ELSE containers
                  ELSE engine_stop_remove(containers, container_id, eo)
        status == stop_status(gc.result, exists,
                              IF exists THEN containers[container_id] ELSE "", eo)
        not_found == gc.result /\ (~exists \/ (eo.get = "ok"
                        /\ containers[container_id] # "exited" /\ eo.stop = "not_found"))
    IN  /\ docker_client' = gc.client
        /\ docker_available' = gc.available
        /\ containers' = engine
        /\ active_containers' = untracked
        /\ last' = [base EXCEPT !.status = status,
                       !.raised = IF ~gc.result THEN ""
                                  ELSE IF ~exists THEN "NotFound"
                                  ELSE IF eo.get # "ok" THEN "APIError"
                                  ELSE IF containers[container_id] = "exited" THEN ""
                                  ELSE IF eo.stop = "not_found" THEN "NotFound"
                                  ELSE IF eo.stop # "ok" \/ eo.remove # "ok" THEN "APIError"
                                  ELSE "",
                       !.missing = IF not_found /\ is_container_tracked(container_id)
                                   THEN {container_id} ELSE {},
                       !.unchanged = (engine = containers /\ untracked = active_containers)]

Stop ==
    /\ Idle
    /\ \E container_id \in ContainerIds, eo \in HandleAnswers :
        /\ container_stop(container_id, eo)
        /\ UNCHANGED <<registry, threads, health_pc, next_id, next_uuid, now, extend_calls,
                       run_options, cleanup_task>>

\* ------------------------------------------------------------ sessions
by_session(session_id) ==
    {c \in DOMAIN active_containers : active_containers[c].session_id = session_id}

\* mutant: the new TTL is not capped
extended_ttl_uncapped(ttl_seconds, extend_seconds) == ttl_seconds + extend_seconds

\* mutant: the extension is counted from the default TTL
extended_ttl_restarted(ttl_seconds, extend_seconds) ==
    Min(DEFAULT_SESSION_TTL + extend_seconds, MAX_SESSION_TTL)

extended_ttl(ttl_seconds, extend_seconds) ==
    Min(ttl_seconds + extend_seconds, MAX_SESSION_TTL)

extend_session(session_id, extend_seconds) ==
    LET base == [NoResponse EXCEPT !.op = "extend", !.sid = session_id,
                    !.delta = extend_seconds] IN
    IF by_session(session_id) = {}
    THEN /\ last' = [base EXCEPT !.code = 404, !.status = "not_found"]
         /\ UNCHANGED active_containers
    ELSE LET container_id == CHOOSE c \in by_session(session_id) : TRUE
             new_ttl == extended_ttl(active_containers[container_id].ttl_seconds,
                                     extend_seconds)
         IN /\ active_containers' =
                   [active_containers EXCEPT ![container_id].last_activity = now,
                                             ![container_id].ttl_seconds = new_ttl]
            /\ last' = [base EXCEPT !.code = 200, !.status = "extended",
                           !.cid = container_id, !.new_ttl = new_ttl]

Extend ==
    /\ Idle
    /\ \E session_id \in SessionIds, extend_seconds \in ExtendValues :
        /\ extend_calls < MaxExtends
        /\ extend_calls' = extend_calls + 1
        /\ extend_session(session_id, extend_seconds)
        /\ UNCHANGED <<registry, threads, docker_client, docker_available, health_pc,
                       containers, next_id, next_uuid, now, run_options, cleanup_task>>

\* get, stop, remove inside a bare "try ... except: pass"
best_effort_stop(engine, container_id, eo) ==
    IF container_id \notin DOMAIN engine \/ eo.get # "ok" THEN engine
    ELSE engine_stop_remove(engine, container_id, eo)

close_session(session_id, eo) ==
    LET gc == get_docker_client(eo.connect)
        base == [NoResponse EXCEPT !.op = "close", !.sid = session_id]
    IN  /\ docker_client' = gc.client
        /\ docker_available' = gc.available
        /\ IF by_session(session_id) = {}
           THEN /\ last' = [base EXCEPT !.code = 404, !.status = "not_found"]
                /\ UNCHANGED <<active_containers, containers>>
           ELSE LET container_id == CHOOSE c \in by_session(session_id) : TRUE IN
                /\ containers' = IF gc.result
                                 THEN best_effort_stop(containers, container_id, eo)
                                 ELSE containers
                /\ active_containers' = untrack_container(active_containers, container_id)
                /\ last' = [base EXCEPT !.code = 200, !.status = "closed",
                               !.cid = container_id, !.tracked_before = TRUE,
                               !.missing = IF gc.result
                                           THEN {container_id} \ DOMAIN containers
                                           ELSE {}]

Close ==
    /\ Idle
    /\ \E session_id \in SessionIds, eo \in HandleAnswers :
        /\ close_session(session_id, eo)
        /\ UNCHANGED <<registry, threads, health_pc, next_id, next_uuid, now, extend_calls,
                       run_options, cleanup_task>>

\* ------------------------------------------------------------ reaper
\* mutant: no record is ever found expired
expired_never(info, t) == FALSE

expired(info, t) ==
    info.persistent /\ t > info.last_activity + info.ttl_seconds

\* the lower end of the datetime range as seen from the clock's origin;
\* the value stands for datetime.min (about 6.4 * 10^10 s in the past),
\* which is below the integers of the model checker
DatetimeMin == 0 - 2000000000

\* expires_at = last_activity + timedelta(seconds=ttl) raises OverflowError
date_overflows(info) ==
    info.persistent /\ info.last_activity + info.ttl_seconds < DatetimeMin

\* the records the loop of a tick gets through, in the order of the table:
\* an exception ends the tick at the record that raised it
reached(table) ==
    {c \in DOMAIN table : \A d \in DOMAIN table : date_overflows(table[d]) => c < d}

ReapAnswers == {[AllOk EXCEPT !.get = "api_error"]} \cup StopAnswers

RECURSIVE sweep_engine(_, _, _)
\* best_effort_stop for every id of ids, each with its own engine answers
sweep_engine(engine, ids, eos) ==
    IF ids = {} THEN engine
    ELSE LET c == CHOOSE x \in ids : TRUE IN
         sweep_engine(best_effort_stop(engine, c, eos[c]), ids \ {c}, eos)

\* mutant: a tick evicts whatever is tracked
reaped_all(table, t) == DOMAIN table

\* the records a tick evicts
reaped(table, t) == {c \in reached(table) : expired(table[c], t)}

cleanup_expired_sessions(o, eos) ==
    LET gc == get_docker_client(o)
        tracked == get_tracked_containers
        gone == reaped(tracked, now)
        base == [NoResponse EXCEPT !.op = "reaper"]
    IN  /\ docker_client' = gc.client
        /\ docker_available' = gc.available
        /\ IF ~gc.result
           THEN /\ last' = [base EXCEPT !.status = "skipped"]
                /\ UNCHANGED <<active_containers, containers>>
           ELSE /\ containers' = sweep_engine(containers, gone, eos)
                /\ active_containers' = untrack_all(active_containers, gone)
                /\ last' = [base EXCEPT !.status = "ran",
                               !.missing = gone \ DOMAIN containers,
                               !.raised = IF reached(tracked) # DOMAIN tracked
                                          THEN "OverflowError" ELSE ""]

ReaperTick ==
    /\ Idle
    /\ \E o \in ConnectChoices,
       eos \in [reaped(active_containers, now) -> ReapAnswers] :
        /\ cleanup_expired_sessions(o, eos)
        /\ UNCHANGED <<registry, threads, health_pc, next_id, next_uuid, now, extend_calls,
                       run_options, cleanup_task>>

\* ------------------------------------------------------------ container_cleanup
\* mutant: every id of the snapshot is listed
swept_all(engine, ids, eos) == ids

\* the ids the sweep appends to "stopped": get, stop and remove all answered
swept(engine, ids, eos) ==
    {c \in ids : /\ c \in DOMAIN engine
                 /\ eos[c].get = "ok" /\ eos[c].stop = "ok" /\ eos[c].remove = "ok"}

\* op: "cleanup" for POST /containers/cleanup, "shutdown" for the call
\* lifespan makes after the reaper task has ended
container_cleanup(op, o, eos) ==
    LET gc == get_docker_client(o)
        tracked == get_tracked_containers
        base == [NoResponse EXCEPT !.op = op, !.code = 200]
    IN  /\ docker_client' = gc.client
        /\ docker_available' = gc.available
        /\ active_containers' = IF gc.result
                               THEN untrack_all(active_containers, DOMAIN tracked)
                               ELSE << >>
        /\ containers' = IF gc.result
                         THEN sweep_engine(containers, DOMAIN tracked, eos)
                         ELSE containers
        /\ last' = [base EXCEPT !.status = IF gc.result THEN "swept" ELSE "cleared",
                       !.missing = IF gc.result THEN DOMAIN tracked \ DOMAIN containers
                                   ELSE {},
                       !.stopped = IF gc.result THEN swept(containers, DOMAIN tracked, eos)
                                   ELSE {},
                       !.count = IF gc.result
                                 THEN Cardinality(swept(containers, DOMAIN tracked, eos))
                                 ELSE 0,
                       !.before = Some(tracked)]

Cleanup ==
    /\ Idle
    /\ \E o \in ConnectChoices, eos \in [DOMAIN active_containers -> ReapAnswers] :
        /\ container_cleanup("cleanup", o, eos)
        /\ UNCHANGED <<registry, threads, health_pc, next_id, next_uuid, now, extend_calls,
                       run_options, cleanup_task>>

\* ------------------------------------------------------------ lifespan
\* shutdown: cleanup_task.cancel() and "await cleanup_task"; the reaper
\* takes the CancelledError in its sleep and leaves its loop
ShutdownCancel ==
    /\ Idle
    /\ cleanup_task' = "done"
    /\ UNCHANGED <<registry, threads, docker_client, docker_available, health_pc,
                   active_containers, containers, next_id, next_uuid, now, extend_calls,
                   run_options, last>>

\* shutdown: the final container_cleanup()
ShutdownSweep ==
    /\ cleanup_task = "done"
    /\ last = NoResponse
    /\ cleanup_task' = "down"
    /\ \E o \in ConnectChoices, eos \in [DOMAIN active_containers -> ReapAnswers] :
        /\ container_cleanup("shutdown", o, eos)
        /\ UNCHANGED <<registry, threads, health_pc, next_id, next_uuid, now, extend_calls,
                       run_options>>

\* ------------------------------------------------------------ container_status
SecondsPerDay == 86400

\* timedelta.seconds of a difference of d seconds: the seconds field of the
\* normalized (days, seconds, microseconds), 0 <= seconds < 86400
timedelta_seconds(d) == d % SecondsPerDay

\* "remaining_seconds" of a record at time t
remaining_seconds(info, t) ==
    LET ttl == info.ttl_seconds
        remaining == ttl - timedelta_seconds(t - info.last_activity)
    IN  Max(0, remaining)

\* "session" of a status entry: None for a record that is not persistent
status_session(info, t) ==
    IF info.persistent THEN Some(remaining_seconds(info, t)) ELSE None

RECURSIVE status_walk(_, _, _)
\* the loop over the tracked ids in the order they were inserted: a
\* container the engine does not find is untracked, any other exception of
\* get leaves the loop and the handler
status_walk(table, ids, eos) ==
    IF ids = {} THEN [table |-> table, missing |-> {}, raised |-> ""]
    ELSE LET c == CHOOSE x \in ids : \A y \in ids : x <= y IN
         IF c \notin DOMAIN containers
         THEN LET r == status_walk(untrack_container(table, c), ids \ {c}, eos) IN
              [r EXCEPT !.missing = @ \cup {c}]
         ELSE IF eos[c] # "ok"
         THEN [table |-> table, missing |-> {}, raised |-> "APIError"]
         ELSE status_walk(table, ids \ {c}, eos)

container_status(o, eos) ==
    LET gc == get_docker_client(o)
        tracked == get_tracked_containers
        walk == status_walk(active_containers, DOMAIN tracked, eos)
        base == [NoResponse EXCEPT !.op = "status"]
    IN  /\ docker_client' = gc.client
        /\ docker_available' = gc.available
        /\ IF ~gc.result
           THEN /\ last' = [base EXCEPT !.code = 200, !.status = "unavailable",
                               !.before = Some(tracked)]
                /\ UNCHANGED active_containers
           ELSE /\ active_containers' = walk.table
                /\ last' = [base EXCEPT !.code = IF walk.raised = "" THEN 200 ELSE 500,
                               !.status = IF walk.raised = "" THEN "listed"
                                          ELSE "internal_error",
                               !.raised = walk.raised, !.missing = walk.missing,
                               !.before = Some(tracked),
                               !.listing = IF walk.raised # "" THEN << >>
                                           ELSE [c \in DOMAIN tracked \cap DOMAIN containers |->
                                                    status_session(tracked[c], now)],
                               !.count = IF walk.raised # "" THEN 0
                                         ELSE Cardinality(DOMAIN tracked \cap DOMAIN containers)]

Status ==
    /\ Idle
    /\ \E o \in ConnectChoices, eos \in [DOMAIN active_containers -> EngineOutcomes] :
        /\ container_status(o, eos)
        /\ UNCHANGED <<registry, threads, health_pc, containers, next_id, next_uuid, now,
                       extend_calls, run_options, cleanup_task>>

\* ------------------------------------------------------------ sessions listed
list_sessions ==
    LET tracked == get_tracked_containers
        sessions == {c \in DOMAIN tracked : tracked[c].persistent}
    IN  last' = [NoResponse EXCEPT !.op = "sessions", !.code = 200, !.status = "listed",
                    !.before = Some(tracked),
                    !.listing = [c \in sessions |-> Some(remaining_seconds(tracked[c], now))],
                    !.count = Cardinality(sessions)]

ListSessions ==
    /\ Idle
    /\ list_sessions
    /\ UNCHANGED <<registry, threads, docker_client, docker_available, health_pc,
                   active_containers, containers, next_id, next_uuid, now, extend_calls,
                   run_options, cleanup_task>>

get_session(session_id) ==
    LET tracked == get_tracked_containers
        found == {c \in DOMAIN tracked : tracked[c].session_id = session_id}
        base == [NoResponse EXCEPT !.op = "session", !.sid = session_id,
                    !.before = Some(tracked)]
    IN  IF found = {}
        THEN last' = [base EXCEPT !.code = 404, !.status = "not_found"]
        ELSE LET container_id == CHOOSE c \in found : \A d \in found : c <= d IN
             last' = [base EXCEPT !.code = 200, !.status = "found", !.cid = container_id,
                         !.listing = [c \in {container_id} |->
                                         Some(remaining_seconds(tracked[c], now))],
                         !.count = 1]

GetSession ==
    /\ Idle
    /\ \E session_id \in SessionIds : get_session(session_id)
    /\ UNCHANGED <<registry, threads, docker_client, docker_available, health_pc,
                   active_containers, containers, next_id, next_uuid, now, extend_calls,
                   run_options, cleanup_task>>

\* ------------------------------------------------------------ container_list
container_list ==
    LET reg == load_registry
        base == [NoResponse EXCEPT !.op = "list"]
    IN  IF reg = None \/ reg[1].containers = None
        THEN last' = [base EXCEPT !.code = 500, !.status = "internal_error"]
        ELSE last' = [base EXCEPT !.code = 200, !.status = "listed",
                         !.profiles = DOMAIN reg[1].containers[1]]

ContainerList ==
    /\ Idle
    /\ container_list
    /\ UNCHANGED <<registry, threads, docker_client, docker_available, health_pc,
                   active_containers, containers, next_id, next_uuid, now, extend_calls,
                   run_options, cleanup_task>>

\* ------------------------------------------------------------ health
\* get_docker_client as /health runs it while other requests are served:
\* from_env() has stored the client, ping() has not answered yet
HealthConnect ==
    /\ Idle
    /\ health_pc = "idle"
    /\ docker_available # "False"
    /\ ~docker_client
    /\ \E o \in {"ok", "connect_fail"} :
          IF o = "ok"
          THEN /\ docker_client' = TRUE
               /\ health_pc' = "ping"
               /\ UNCHANGED docker_available
          ELSE /\ docker_available' = "False"
               /\ UNCHANGED <<docker_client, health_pc>>
    /\ UNCHANGED <<registry, threads, active_containers, containers, next_id, next_uuid, now,
                   extend_calls, run_options, cleanup_task, last>>

HealthPing ==
    /\ Idle
    /\ health_pc = "ping"
    /\ health_pc' = "idle"
    /\ \E o \in {"ok", "ping_fail"} :
          docker_available' = IF o = "ok" THEN "True" ELSE "False"
    /\ UNCHANGED <<registry, threads, docker_client, active_containers, containers, next_id,
                   next_uuid, now, extend_calls, run_options, cleanup_task, last>>

\* ------------------------------------------------------------ environment
\* the clock moves on
Tick ==
    /\ Idle
    /\ now < MaxTicks * CLEANUP_INTERVAL
    /\ now' = now + CLEANUP_INTERVAL
    /\ UNCHANGED <<registry, threads, docker_client, docker_available, health_pc,
                   active_containers, containers, next_id, next_uuid, extend_calls,
                   run_options, cleanup_task, last>>

\* a container's process ends by itself
ContainerExits ==
    /\ Idle
    /\ \E c \in DOMAIN containers :
        /\ containers[c] = "running"
        /\ containers' = [containers EXCEPT ![c] = "exited"]
        /\ UNCHANGED <<registry, threads, docker_client, docker_available, health_pc,
                       active_containers, next_id, next_uuid, now, extend_calls,
                       run_options, cleanup_task, last>>

\* a container is removed from the engine behind the service's back
ContainerVanishes ==
    /\ Idle
    /\ \E c \in DOMAIN containers :
        /\ containers' = Del(containers, c)
        /\ UNCHANGED <<registry, threads, docker_client, docker_available, health_pc,
                       active_containers, next_id, next_uuid, now, extend_calls,
                       run_options, cleanup_task, last>>

\* ------------------------------------------------------------ specification
\* the catalog as shipped
GoodRegistry == CHOOSE r \in RegistryFiles : r.readable /\ r.doc # None /\ r.doc[1].containers # None

\* the requests and engine outputs of the session life cycle
SessionRequests ==
    {req \in StartRequests :
        /\ req.ttl_seconds \in {None, Some(5)}
        /\ req.code # "empty"
        /\ req.container_name \in {"python-sandbox", "rogue"}
        /\ ~req.enable_ttyd
        /\ req.container_name = "rogue" => req.code = "none" /\ ~req.keep_alive
        /\ ~req.keep_alive => req.ttl_seconds = None}

SessionOutputs == {o \in EngineOutputs : o.utf8 /\ o.out # None /\ o.err # None}

Start == StartOf(SessionRequests, SessionOutputs)

Exec == ExecOf(SessionOutputs)

InitWith(registries) ==
    /\ registry \in registries
    /\ docker_client = FALSE
    /\ docker_available = "None"
    /\ health_pc = "idle"
    /\ active_containers = << >>
    /\ containers = << >>
    /\ next_id = 1
    /\ next_uuid = 1
    /\ now = 0
    /\ extend_calls = 0
    /\ run_options = << >>
    /\ cleanup_task = "sleeping"
    /\ threads = [t \in Threads |-> IdleThread]
    /\ last = NoResponse

Init == InitWith({GoodRegistry})

\* the response has reached the client
Return ==
    /\ last # NoResponse
    /\ last' = NoResponse
    /\ UNCHANGED <<registry, threads, docker_client, docker_available, health_pc,
                   active_containers, containers, next_id, next_uuid, now, extend_calls,
                   run_options, cleanup_task>>

\* stop(id) followed by stop(id)
StopAgain ==
    /\ last.op = "stop"
    /\ \E eo \in HandleAnswers :
          /\ container_stop(last.cid, eo)
          /\ UNCHANGED <<registry, threads, health_pc, next_id, next_uuid, now, extend_calls,
                       run_options, cleanup_task>>

Next ==
    \/ Start
    \/ Exec
    \/ Stop
    \/ Extend
    \/ Close
    \/ ReaperTick
    \/ Cleanup
    \/ HealthConnect
    \/ HealthPing
    \/ Tick
    \/ ContainerExits
    \/ ContainerVanishes
    \/ StopAgain
    \/ ExecAgain
    \/ Status
    \/ ShutdownCancel
    \/ ShutdownSweep
    \/ Return

Spec == Init /\ [][Next]_vars

\* ------------------------------------------------------------ start in detail
\* every registry file, every start request and every engine output, for
\* the claims about what one start or exec answers
InitStart == InitWith(RegistryFiles)

\* a profile other than python-sandbox and the terminal are asked for with
\* the defaults of the other fields
AnyRequests ==
    {req \in StartRequests :
        (req.enable_ttyd \/ req.container_name \in {"web-tools", "shell"})
            => req.ttl_seconds = None /\ req.code = "none" /\ req.keep_alive}

StartAny == StartOf(AnyRequests, EngineOutputs)

ExecAny == ExecOf(EngineOutputs)

NextStart ==
    \/ StartAny
    \/ ExecAny
    \/ ContainerList
    \/ HealthConnect
    \/ HealthPing
    \/ ContainerExits
    \/ ContainerVanishes
    \/ Return

SpecStart == InitStart /\ [][NextStart]_vars

\* ------------------------------------------------------------ sessions over days
\* the session endpoints and the administrative handlers on sessions that
\* are left alone for seconds and for days
SleepRequests ==
    {req \in StartRequests :
        /\ req.container_name = "python-sandbox"
        /\ req.code = "none"
        /\ ~req.enable_ttyd
        /\ req.ttl_seconds \in {None, Some(5)}
        /\ ~req.keep_alive => req.ttl_seconds = None}

StartSession == StartOf(SleepRequests, {})

\* the instants at which requests arrive: on a day boundary or a few seconds
\* after it
Clock == {d * SecondsPerDay + s : d \in 0..MaxDays, s \in {0, 10}}

\* the clock moves on to a later instant
Elapse ==
    /\ Idle
    /\ \E t \in Clock :
          /\ t > now
          /\ now' = t
    /\ UNCHANGED <<registry, threads, docker_client, docker_available, health_pc,
                   active_containers, containers, next_id, next_uuid, extend_calls,
                   run_options, cleanup_task, last>>

NextSessions ==
    \/ StartSession
    \/ Elapse
    \/ ListSessions
    \/ GetSession
    \/ Status
    \/ Cleanup
    \/ Extend
    \/ Stop
    \/ ContainerExits
    \/ ContainerVanishes
    \/ Return

SpecSessions == Init /\ [][NextSessions]_vars

\* ------------------------------------------------------------ reaper loop
\* session_cleanup_loop from startup to shutdown, over sessions that expire
\* and sessions whose expiry cannot be computed
ReaperRequests ==
    {req \in [container_name : {"python-sandbox"}, code : {"none"}, keep_alive : {TRUE},
              ttl_seconds : {Some(5), Some(DatetimeMin - 5)}, enable_ttyd : {FALSE}] : TRUE}

StartReaped == StartOf(ReaperRequests, {})

NextReaper ==
    \/ StartReaped
    \/ Tick
    \/ ReaperTick
    \/ ContainerVanishes
    \/ ShutdownCancel
    \/ ShutdownSweep
    \/ Return

SpecReaper == Init /\ [][NextReaper]_vars

\* ------------------------------------------------------------ worker threads
\* Sync endpoints run in the thread pool and the reaper on the event loop:
\* two handlers can be under way at once. A handler is cut where it releases
\* active_containers_lock; the steps on the table are those of the helpers
\* above, the engine answers ok to stop and remove.
At(t, op, pc) == threads[t].op = op /\ threads[t].pc = pc

\* the thread has entered handler op
Entered(op, pc) == [IdleThread EXCEPT !.op = op, !.pc = pc]

\* record container_id of table was changed in place: dict(active_containers)
\* copies the references, so every snapshot that holds the same info dict
\* shows the new values
aliased(ths, table, container_id) ==
    [t \in Threads |->
        IF container_id \in DOMAIN ths[t].snap /\ container_id \in DOMAIN table
        THEN [ths[t] EXCEPT !.snap =
                 [ths[t].snap EXCEPT ![container_id] = table[container_id]]]
        ELSE ths[t]]

\* container_exec up to is_container_tracked
ExecCheck(t) ==
    /\ threads[t].pc = "idle"
    /\ \E container_id \in ContainerIds :
          threads' = [threads EXCEPT ![t] =
              IF is_container_tracked(container_id)
              THEN [Entered("exec", "touch") EXCEPT !.cid = container_id]
              ELSE [Entered("exec", "done") EXCEPT !.cid = container_id, !.code = 404]]
    /\ UNCHANGED <<registry, docker_client, docker_available, health_pc,
                   active_containers, containers, next_id, next_uuid, now,
                   extend_calls, run_options, cleanup_task, last>>

\* update_container_activity
ExecTouch(t) ==
    /\ At(t, "exec", "touch")
    /\ LET table == update_container_activity(active_containers, threads[t].cid) IN
          /\ active_containers' = table
          /\ threads' = [aliased(threads, table, threads[t].cid) EXCEPT ![t].pc = "run"]
    /\ UNCHANGED <<registry, docker_client, docker_available, health_pc,
                   containers, next_id, next_uuid, now,
                   extend_calls, run_options, cleanup_task, last>>

\* the engine part of container_exec: a container that is not found is
\* untracked
ExecRun(t) ==
    /\ At(t, "exec", "run")
    /\ \E o \in ConnectChoices :
          LET gc == get_docker_client(o)
              gone == gc.result /\ threads[t].cid \notin DOMAIN containers
          IN  /\ docker_client' = gc.client
              /\ docker_available' = gc.available
              /\ active_containers' = IF gone
                                      THEN untrack_container(active_containers, threads[t].cid)
                                      ELSE active_containers
              /\ threads' = [threads EXCEPT ![t].pc = "done",
                                ![t].code = IF ~gc.result THEN 500
                                            ELSE IF gone THEN 404 ELSE 200]
    /\ UNCHANGED <<registry, health_pc, containers, next_id, next_uuid, now,
                   extend_calls, run_options, cleanup_task, last>>

\* container_stop
StopStep(t) ==
    /\ threads[t].pc = "idle"
    /\ \E container_id \in ContainerIds, o \in ConnectChoices :
          LET gc == get_docker_client(o) IN
          /\ docker_client' = gc.client
          /\ docker_available' = gc.available
          /\ containers' = IF gc.result /\ container_id \in DOMAIN containers
                           THEN Del(containers, container_id) ELSE containers
          /\ active_containers' = untrack_container(active_containers, container_id)
          /\ threads' = [threads EXCEPT ![t] =
                            [Entered("stop", "done") EXCEPT !.cid = container_id, !.code = 200]]
    /\ UNCHANGED <<registry, health_pc, next_id, next_uuid, now,
                   extend_calls, run_options, cleanup_task, last>>

RaceExtends == {9999}

\* extend_session: the whole handler holds the lock
ExtendStep(t) ==
    /\ threads[t].pc = "idle"
    /\ \E session_id \in SessionIds, extend_seconds \in RaceExtends :
          IF by_session(session_id) = {}
          THEN /\ threads' = [threads EXCEPT ![t] =
                                 [Entered("extend", "done") EXCEPT !.code = 404]]
               /\ UNCHANGED active_containers
          ELSE LET container_id == CHOOSE c \in by_session(session_id) : TRUE
                   new_ttl == extended_ttl(active_containers[container_id].ttl_seconds,
                                           extend_seconds)
                   table == [active_containers EXCEPT
                                ![container_id].last_activity = now,
                                ![container_id].ttl_seconds = new_ttl]
               IN /\ active_containers' = table
                  /\ threads' = [aliased(threads, table, container_id) EXCEPT ![t] =
                                    [Entered("extend", "done") EXCEPT
                                        !.cid = container_id, !.code = 200]]
    /\ UNCHANGED <<registry, docker_client, docker_available, health_pc,
                   containers, next_id, next_uuid, now,
                   extend_calls, run_options, cleanup_task, last>>

\* the handlers that work on get_tracked_containers()
ReaderOps == {"status", "sessions", "session", "close", "reaper", "cleanup"}

\* tracked = get_tracked_containers()
Snapshot(t) ==
    /\ threads[t].pc = "idle"
    /\ \E op \in ReaderOps :
          threads' = [threads EXCEPT ![t] =
              [Entered(op, "read") EXCEPT !.snap = get_tracked_containers,
                                          !.taken = get_tracked_containers]]
    /\ UNCHANGED <<registry, docker_client, docker_available, health_pc,
                   active_containers, containers, next_id, next_uuid, now,
                   extend_calls, run_options, cleanup_task, last>>

\* the loop over tracked.items() reads the records: info.get(...)
ReadRecords(t) ==
    /\ threads[t].pc = "read"
    /\ threads' = [threads EXCEPT ![t].seen = threads[t].snap, ![t].pc = "purge"]
    /\ UNCHANGED <<registry, docker_client, docker_available, health_pc,
                   active_containers, containers, next_id, next_uuid, now,
                   extend_calls, run_options, cleanup_task, last>>

\* the ids a reader may untrack: status those the engine does not find, the
\* reaper the expired ones, cleanup all, close the one with the session id
\* asked for, list_sessions and get_session none
purged(t, available) ==
    LET snap == threads[t].snap
        op == threads[t].op
    IN  IF op = "status"
        THEN {IF available THEN {c \in DOMAIN snap : c \notin DOMAIN containers} ELSE {}}
        ELSE IF op = "reaper"
        THEN {IF available THEN {c \in DOMAIN snap : expired(threads[t].seen[c], now)}
              ELSE {}}
        ELSE IF op = "cleanup" THEN {IF available THEN DOMAIN snap ELSE DOMAIN active_containers}
        ELSE IF op = "close" THEN {{c} : c \in DOMAIN snap} \cup {{}}
        ELSE {{}}

\* the untrack_container calls of a reader, with the engine stop and remove
\* that go before them in close, cleanup and the reaper
PurgeRecords(t) ==
    /\ threads[t].pc = "purge"
    /\ \E o \in ConnectChoices :
          LET gc == get_docker_client(o) IN
          \E ids \in purged(t, gc.result) :
              /\ docker_client' = gc.client
              /\ docker_available' = gc.available
              /\ active_containers' = untrack_all(active_containers, ids)
              /\ containers' = IF gc.result /\ threads[t].op # "status"
                               THEN [c \in DOMAIN containers \ ids |-> containers[c]]
                               ELSE containers
              /\ threads' = [threads EXCEPT ![t].pc = "done", ![t].code = 200]
    /\ UNCHANGED <<registry, health_pc, next_id, next_uuid, now,
                   extend_calls, run_options, cleanup_task, last>>

\* container_start from containers.run to track_container, for a
\* keep_alive request of the sandbox profile
StartTrack(t) ==
    /\ threads[t].pc = "idle"
    /\ next_id <= MaxContainers
    /\ \E o \in ConnectChoices :
          LET gc == get_docker_client(o)
              session_info == [name |-> "python-sandbox", persistent |-> TRUE,
                               ttl_seconds |-> session_ttl(None), ttyd_enabled |-> FALSE]
          IN  /\ docker_client' = gc.client
              /\ docker_available' = gc.available
              /\ IF gc.result
                 THEN /\ containers' = Put(containers, next_id, "running")
                      /\ active_containers' =
                            track_container(active_containers, next_id, session_info)
                      /\ run_options' = Put(run_options, next_id,
                                            container_options(SandboxConfig, FALSE))
                      /\ next_id' = next_id + 1
                      /\ next_uuid' = next_uuid + 1
                      /\ threads' = [threads EXCEPT ![t] =
                                        [Entered("start", "done") EXCEPT
                                            !.cid = next_id, !.code = 200]]
                 ELSE /\ threads' = [threads EXCEPT ![t] =
                                        [Entered("start", "done") EXCEPT !.code = 500]]
                      /\ UNCHANGED <<containers, active_containers, run_options,
                                     next_id, next_uuid>>
    /\ UNCHANGED <<registry, health_pc, now, extend_calls, cleanup_task, last>>

\* the handler returns
FinishThread(t) ==
    /\ threads[t].pc = "done"
    /\ threads' = [threads EXCEPT ![t] = IdleThread]
    /\ UNCHANGED <<registry, docker_client, docker_available, health_pc,
                   active_containers, containers, next_id, next_uuid, now,
                   extend_calls, run_options, cleanup_task, last>>

NextRace ==
    \/ \E t \in Threads : ExecCheck(t)
    \/ \E t \in Threads : ExecTouch(t)
    \/ \E t \in Threads : ExecRun(t)
    \/ \E t \in Threads : StopStep(t)
    \/ \E t \in Threads : ExtendStep(t)
    \/ \E t \in Threads : Snapshot(t)
    \/ \E t \in Threads : ReadRecords(t)
    \/ \E t \in Threads : PurgeRecords(t)
    \/ \E t \in Threads : StartTrack(t)
    \/ \E t \in Threads : FinishThread(t)
    \/ Tick
    \/ ContainerVanishes

SpecRace == Init /\ [][NextRace]_vars

\* ------------------------------------------------------------ evictions under way
\* The handlers that take a record out of the table, cut where they release
\* active_containers_lock and at their engine calls, next to a start that
\* reads its record back, an exec and an extend. Sessions are started with a
\* TTL of 5 s, so that one tick of the clock expires them.
EvictOps == {"reaper", "cleanup"}

\* stop() on the handle answers ok or raises an APIError
EvictAnswers == {AllOk, [AllOk EXCEPT !.stop = "api_error"]}

EvictTtl == Some(5)

\* container_start from get_docker_client to track_container, for a
\* keep_alive request of the sandbox profile without code
StartInsert(t) ==
    /\ threads[t].pc = "idle"
    /\ next_id <= MaxContainers
    /\ \E o \in ConnectChoices :
          LET gc == get_docker_client(o)
              session_info == [name |-> "python-sandbox", persistent |-> TRUE,
                               ttl_seconds |-> session_ttl(EvictTtl),
                               ttyd_enabled |-> FALSE]
          IN  /\ docker_client' = gc.client
              /\ docker_available' = gc.available
              /\ IF gc.result
                 THEN /\ containers' = Put(containers, next_id, "running")
                      /\ active_containers' =
                            track_container(active_containers, next_id, session_info)
                      /\ run_options' = Put(run_options, next_id,
                                            container_options(SandboxConfig, FALSE))
                      /\ next_id' = next_id + 1
                      /\ next_uuid' = next_uuid + 1
                      /\ threads' = [threads EXCEPT ![t] =
                                        [Entered("start", "readback") EXCEPT !.cid = next_id]]
                 ELSE /\ threads' = [threads EXCEPT ![t] =
                                        [Entered("start", "done") EXCEPT !.code = 500]]
                      /\ UNCHANGED <<containers, active_containers, run_options,
                                     next_id, next_uuid>>
    /\ UNCHANGED <<registry, health_pc, now, extend_calls, cleanup_task, last>>

\* session_id = get_container_session(container_id).get("session_id"): on
\* None the AttributeError ends in "except Exception" as a 500, and nothing
\* is done about the container
StartReadBack(t) ==
    /\ At(t, "start", "readback")
    /\ LET session == get_container_session(active_containers, threads[t].cid) IN
          threads' = [threads EXCEPT ![t].pc = "done",
                         ![t].got = IF session = None THEN "AttributeError" ELSE "session",
                         ![t].code = IF session = None THEN 500 ELSE 200]
    /\ UNCHANGED <<registry, docker_client, docker_available, health_pc,
                   active_containers, containers, next_id, next_uuid, now,
                   extend_calls, run_options, cleanup_task, last>>

\* the engine part of container_exec: containers.get and exec_run; a
\* container that is not found is untracked, one that is not running makes
\* exec_run raise an APIError
ExecEngine(t) ==
    /\ At(t, "exec", "run")
    /\ \E o \in ConnectChoices :
          LET gc == get_docker_client(o)
              container_id == threads[t].cid
              gone == gc.result /\ container_id \notin DOMAIN containers
              issued == gc.result /\ ~gone
          IN  /\ docker_client' = gc.client
              /\ docker_available' = gc.available
              /\ active_containers' = IF gone
                                      THEN untrack_container(active_containers, container_id)
                                      ELSE active_containers
              /\ threads' = [threads EXCEPT ![t].pc = "done",
                                ![t].got = IF issued THEN "exec_run" ELSE "",
                                ![t].code = IF ~gc.result THEN 500
                                            ELSE IF gone THEN 404
                                            ELSE IF containers[container_id] = "running"
                                            THEN 200 ELSE 500]
    /\ UNCHANGED <<registry, health_pc, containers, next_id, next_uuid, now,
                   extend_calls, run_options, cleanup_task, last>>

\* container_stop up to its engine calls; without a client the record is
\* untracked at once
StopEngine(t) ==
    /\ threads[t].pc = "idle"
    /\ \E container_id \in ContainerIds, o \in ConnectChoices, eo \in EvictAnswers :
          LET gc == get_docker_client(o) IN
          /\ docker_client' = gc.client
          /\ docker_available' = gc.available
          /\ containers' = IF gc.result /\ container_id \in DOMAIN containers
                           THEN engine_stop_remove(containers, container_id, eo)
                           ELSE containers
          /\ threads' = [threads EXCEPT ![t] =
                            [Entered("stop", "untrack") EXCEPT !.cid = container_id]]
    /\ UNCHANGED <<registry, health_pc, active_containers, next_id, next_uuid, now,
                   extend_calls, run_options, cleanup_task, last>>

\* untrack_container, which every branch of container_stop ends with
StopUntrack(t) ==
    /\ At(t, "stop", "untrack")
    /\ active_containers' = untrack_container(active_containers, threads[t].cid)
    /\ threads' = [threads EXCEPT ![t].pc = "done", ![t].code = 200]
    /\ UNCHANGED <<registry, docker_client, docker_available, health_pc,
                   containers, next_id, next_uuid, now,
                   extend_calls, run_options, cleanup_task, last>>

\* the reaper's and cleanup's start: get_docker_client, now = datetime.now()
\* and tracked = get_tracked_containers(); without a client the reaper
\* returns and cleanup clears the table
SweepSnapshot(t) ==
    /\ threads[t].pc = "idle"
    /\ \E op \in EvictOps, o \in ConnectChoices :
          LET gc == get_docker_client(o) IN
          /\ docker_client' = gc.client
          /\ docker_available' = gc.available
          /\ IF gc.result
             THEN /\ threads' = [threads EXCEPT ![t] =
                                    [Entered(op, "next") EXCEPT
                                        !.snap = get_tracked_containers, !.at = now]]
                  /\ UNCHANGED active_containers
             ELSE /\ threads' = [threads EXCEPT ![t] =
                                    [Entered(op, "done") EXCEPT !.code = 200]]
                  /\ active_containers' =
                        IF op = "cleanup"
                        THEN untrack_all(active_containers, DOMAIN active_containers)
                        ELSE active_containers
    /\ UNCHANGED <<registry, health_pc, containers, next_id, next_uuid, now,
                   extend_calls, run_options, cleanup_task, last>>

\* the ids of the snapshot the loop has not come to yet
ahead(t) == {c \in DOMAIN threads[t].snap : c > threads[t].cid}

\* the loop over the snapshot comes to its next record: cleanup takes every
\* record, the reaper those it finds expired at the time it read the clock
SweepNext(t) ==
    /\ threads[t].pc = "next"
    /\ threads[t].op \in EvictOps
    /\ IF ahead(t) = {}
       THEN threads' = [threads EXCEPT ![t].pc = "done", ![t].code = 200]
       ELSE LET c == CHOOSE x \in ahead(t) : \A y \in ahead(t) : x <= y
                due == threads[t].op = "cleanup"
                       \/ expired(threads[t].snap[c], threads[t].at)
            IN  threads' = [threads EXCEPT ![t].cid = c,
                               ![t].pc = IF due THEN "evict" ELSE "next"]
    /\ UNCHANGED <<registry, docker_client, docker_available, health_pc,
                   active_containers, containers, next_id, next_uuid, now,
                   extend_calls, run_options, cleanup_task, last>>

\* containers.get, stop and remove for the record the loop is at, with what
\* they raise swallowed
SweepEvict(t) ==
    /\ threads[t].pc = "evict"
    /\ \E eo \in EvictAnswers :
          containers' = best_effort_stop(containers, threads[t].cid, eo)
    /\ threads' = [threads EXCEPT ![t].pc = "untrack"]
    /\ UNCHANGED <<registry, docker_client, docker_available, health_pc,
                   active_containers, next_id, next_uuid, now,
                   extend_calls, run_options, cleanup_task, last>>

\* untrack_container for the record the loop is at
SweepUntrack(t) ==
    /\ threads[t].pc = "untrack"
    /\ threads[t].op \in EvictOps
    /\ active_containers' = untrack_container(active_containers, threads[t].cid)
    /\ threads' = [threads EXCEPT ![t].pc = "next"]
    /\ UNCHANGED <<registry, docker_client, docker_available, health_pc,
                   containers, next_id, next_uuid, now,
                   extend_calls, run_options, cleanup_task, last>>

NextEvict ==
    \/ \E t \in Threads : StartInsert(t)
    \/ \E t \in Threads : StartReadBack(t)
    \/ \E t \in Threads : ExecCheck(t)
    \/ \E t \in Threads : ExecTouch(t)
    \/ \E t \in Threads : ExecEngine(t)
    \/ \E t \in Threads : StopEngine(t)
    \/ \E t \in Threads : StopUntrack(t)
    \/ \E t \in Threads : ExtendStep(t)
    \/ \E t \in Threads : SweepSnapshot(t)
    \/ \E t \in Threads : SweepNext(t)
    \/ \E t \in Threads : SweepEvict(t)
    \/ \E t \in Threads : SweepUntrack(t)
    \/ \E t \in Threads : FinishThread(t)
    \/ Tick

SpecEvict == Init /\ [][NextEvict]_vars

\* ------------------------------------------------------------ first requests
\* get_docker_client statement by statement (it takes no lock), and the two
\* registry reads of container_start with the registry file rewritten in
\* between
GdcCallers == {"client", "start"}

\* where get_docker_client hands its result to: the handlers other than
\* start are left once they have it
Returned(t, got) ==
    IF threads[t].op = "start" /\ got = "client"
    THEN [threads[t] EXCEPT !.pc = "run", !.got = got]
    ELSE [threads[t] EXCEPT !.pc = "done", !.got = got,
                            !.code = IF threads[t].op = "start" THEN 500 ELSE 200]

\* a handler calls get_docker_client
GdcCall(t) ==
    /\ threads[t].pc = "idle"
    /\ threads' = [threads EXCEPT ![t] = Entered("client", "enter")]
    /\ UNCHANGED <<registry, docker_client, docker_available, health_pc,
                   active_containers, containers, next_id, next_uuid, now,
                   extend_calls, run_options, cleanup_task, last>>

\* if _docker_available is False: return None
GdcEnter(t) ==
    /\ threads[t].op \in GdcCallers
    /\ threads[t].pc = "enter"
    /\ threads' = [threads EXCEPT ![t] =
                      IF docker_available = "False" THEN Returned(t, "none")
                      ELSE [threads[t] EXCEPT !.pc = "test"]]
    /\ UNCHANGED <<registry, docker_client, docker_available, health_pc,
                   active_containers, containers, next_id, next_uuid, now,
                   extend_calls, run_options, cleanup_task, last>>

\* if _docker_client is None: ... else return _docker_client
GdcTest(t) ==
    /\ threads[t].op \in GdcCallers
    /\ threads[t].pc = "test"
    /\ threads' = [threads EXCEPT ![t] =
                      IF docker_client THEN Returned(t, "client")
                      ELSE [threads[t] EXCEPT !.pc = "connect"]]
    /\ UNCHANGED <<registry, docker_client, docker_available, health_pc,
                   active_containers, containers, next_id, next_uuid, now,
                   extend_calls, run_options, cleanup_task, last>>

\* _docker_client = docker.from_env()
GdcFromEnv(t) ==
    /\ threads[t].op \in GdcCallers
    /\ threads[t].pc = "connect"
    /\ \E o \in {"ok", "connect_fail"} :
          IF o = "ok"
          THEN /\ docker_client' = TRUE
               /\ threads' = [threads EXCEPT ![t].pc = "ping"]
               /\ UNCHANGED docker_available
          ELSE /\ docker_available' = "False"
               /\ threads' = [threads EXCEPT ![t] = Returned(t, "none")]
               /\ UNCHANGED docker_client
    /\ UNCHANGED <<registry, health_pc, active_containers, containers, next_id,
                   next_uuid, now, extend_calls, run_options, cleanup_task, last>>

\* _docker_client.ping() and the verdict
GdcPing(t) ==
    /\ threads[t].op \in GdcCallers
    /\ threads[t].pc = "ping"
    /\ \E o \in {"ok", "ping_fail"} :
          /\ docker_available' = IF o = "ok" THEN "True" ELSE "False"
          /\ threads' = [threads EXCEPT ![t] =
                            Returned(t, IF o = "ok" THEN "client" ELSE "none")]
    /\ UNCHANGED <<registry, docker_client, health_pc, active_containers, containers,
                   next_id, next_uuid, now, extend_calls, run_options, cleanup_task, last>>

\* the catalog with the sandbox profile rewritten to reach the network
OpenCatalog ==
    [Catalog EXCEPT !["python-sandbox"] =
        Some([SandboxConfig EXCEPT !.network_mode = Some("bridge")])]

\* registry.yaml as it can be found at either read
EditedFiles ==
    {[readable |-> TRUE, doc |-> Some([containers |-> Some(cs)])] :
        cs \in {Catalog, OpenCatalog}}
    \cup {[readable |-> FALSE, doc |-> None]}

\* registry.yaml is rewritten, or made unreadable
RegistryEdit ==
    /\ \E file \in EditedFiles : file # registry /\ registry' = file
    /\ UNCHANGED <<docker_client, docker_available, health_pc, threads,
                   active_containers, containers, next_id, next_uuid, now,
                   extend_calls, run_options, cleanup_task, last>>

\* container_start up to the 403: is_container_allowed reads the registry
StartAuthorize(t) ==
    /\ threads[t].pc = "idle"
    /\ \E name \in {"python-sandbox", "rogue"} :
          LET allowed == is_container_allowed(name)
              entered == [Entered("start", "config") EXCEPT !.name = name]
          IN  threads' = [threads EXCEPT ![t] =
                  IF allowed.raised THEN [entered EXCEPT !.pc = "done", !.code = 500]
                  ELSE IF ~allowed.value THEN [entered EXCEPT !.pc = "done", !.code = 403]
                  ELSE [entered EXCEPT !.authorized = get_container_config(name).value]]
    /\ UNCHANGED <<registry, docker_client, docker_available, health_pc,
                   active_containers, containers, next_id, next_uuid, now,
                   extend_calls, run_options, cleanup_task, last>>

\* config = get_container_config(container_name) reads the registry again;
\* config.get on None raises an AttributeError outside the try
StartConfig(t) ==
    /\ At(t, "start", "config")
    /\ LET config == get_container_config(threads[t].name) IN
          threads' = [threads EXCEPT ![t] =
              IF config.raised \/ config.value = None
              THEN [threads[t] EXCEPT !.pc = "done", !.code = 500]
              ELSE [threads[t] EXCEPT !.pc = "enter", !.config = config.value]]
    /\ UNCHANGED <<registry, docker_client, docker_available, health_pc,
                   active_containers, containers, next_id, next_uuid, now,
                   extend_calls, run_options, cleanup_task, last>>

\* containers.run with the options shaped from config, then track_container
StartRun(t) ==
    /\ At(t, "start", "run")
    /\ next_id <= MaxContainers
    /\ LET session_info == [name |-> threads[t].name, persistent |-> TRUE,
                            ttl_seconds |-> session_ttl(None), ttyd_enabled |-> FALSE]
       IN  /\ containers' = Put(containers, next_id, "running")
           /\ active_containers' = track_container(active_containers, next_id, session_info)
           /\ run_options' = Put(run_options, next_id,
                                 container_options(threads[t].config[1], FALSE))
           /\ next_id' = next_id + 1
           /\ next_uuid' = next_uuid + 1
           /\ threads' = [threads EXCEPT ![t].pc = "done", ![t].cid = next_id,
                                         ![t].code = 200]
    /\ UNCHANGED <<registry, docker_client, docker_available, health_pc, now,
                   extend_calls, cleanup_task, last>>

NextBoot ==
    \/ \E t \in Threads : GdcCall(t)
    \/ \E t \in Threads : GdcEnter(t)
    \/ \E t \in Threads : GdcTest(t)
    \/ \E t \in Threads : GdcFromEnv(t)
    \/ \E t \in Threads : GdcPing(t)
    \/ \E t \in Threads : StartAuthorize(t)
    \/ \E t \in Threads : StartConfig(t)
    \/ \E t \in Threads : StartRun(t)
    \/ \E t \in Threads : FinishThread(t)
    \/ RegistryEdit

SpecBoot == Init /\ [][NextBoot]_vars

\* ------------------------------------------------------------ properties
\* the name is a key of the containers map of the registry file
InCatalog(name) ==
    /\ registry.readable
    /\ registry.doc # None
    /\ registry.doc[1].containers # None
    /\ name \in DOMAIN registry.doc[1].containers[1]

Running(c) == c \in DOMAIN containers /\ containers[c] = "running"

\* C1: start answers 403 exactly when the requested name is not a key of the
\* registry's containers map, for every registry file and every request.
C1_Authorization ==
    last.op = "start" => (last.code = 403 <=> ~InCatalog(last.name))

\* C2: after a start with keep_alive=false that carries code has answered,
\* the container it produced has no record in the session table and is not
\* running, whatever the engine answered to inject, exec, stop and remove.
C2_OneShot ==
    (last.op = "start" /\ last.cid # 0 /\ ~last.keep_alive /\ last.code_kind = "text")
        => last.cid \notin DOMAIN active_containers /\ ~Running(last.cid)

\* C3: when a reaper tick has run, no persistent record that was expired at
\* the tick is left in the session table, whatever the state of the engine
\* client; so a record that stays expired is gone after the next tick.
C3_ReaperEvicts ==
    last.op = "reaper" =>
        \A c \in DOMAIN active_containers : ~expired(active_containers[c], now)

\* C4: distinct records have distinct container ids and distinct session
\* ids, every session id in the table is one uuid4 has already handed out
\* (so no later record can get it), and a record keeps its session id.
C4_Unique ==
    /\ [](\A c, d \in DOMAIN active_containers :
             /\ c # d => active_containers[c].session_id # active_containers[d].session_id
             /\ active_containers[c].session_id < next_uuid
             /\ c < next_id)
    /\ [][\A c \in DOMAIN active_containers \cap DOMAIN active_containers' :
             active_containers'[c].session_id = active_containers[c].session_id]_vars

C4_Witness ==
    /\ Cardinality(DOMAIN active_containers) = 2
    /\ last.op = "extend"

AlreadyStoppedClass == {"already_stopped", "no_docker"}

C6_StopCloseUntrack ==
    /\ last.op = "stop" =>
          last.cid \notin DOMAIN active_containers /\ last.code = 200
    /\ (last.op = "close" /\ last.status = "closed") =>
          last.cid \notin DOMAIN active_containers /\ last.code = 200

C6_Witness ==
    /\ last.op = "stop"
    /\ last.tracked_before
    /\ last.status = "error_but_cleaned"
    /\ Running(last.cid)

\* the record an exec on a tracked container leaves in the table
Touched == active_containers[last.cid]

ExecTouched == last.op = "exec" /\ last.tracked_before /\ last.status # "gone"

\* C7 (as claimed): an exec on a tracked container sets last_activity to the
\* current time, keeps it when the engine exec fails, and a successful exec
\* strictly increases last_activity.
C7_TouchStrict ==
    ExecTouched =>
        /\ Touched.last_activity = now
        /\ last.code = 200 => Touched.last_activity > last.activity_before

\* C7 (amended): an exec on a tracked container sets last_activity to the
\* current time, also when the engine exec fails; last_activity never
\* decreases, and it strictly increases when the clock has advanced since
\* the record was last touched.
C7_Touch ==
    ExecTouched =>
        /\ Touched.last_activity = now
        /\ Touched.last_activity >= last.activity_before

C7_Witness ==
    /\ ExecTouched
    /\ last.code = 500
    /\ Touched.last_activity > last.activity_before

\* C8: after an extend, also a repeated one and for any extend_seconds, the
\* record's ttl_seconds and the returned new_ttl are at most MAX_SESSION_TTL.
C8_ExtendClamp ==
    (last.op = "extend" /\ last.code = 200) =>
        /\ last.new_ttl <= MAX_SESSION_TTL
        /\ active_containers[last.cid].ttl_seconds = last.new_ttl

C8_Witness ==
    /\ last.op = "extend"
    /\ last.new_ttl = MAX_SESSION_TTL
    /\ extend_calls = 2

\* C9: every answer of start or exec that carries an execution result has
\* stdout and stderr of at most MAX_OUTPUT_LENGTH characters.
C9_Truncation ==
    (last.op \in {"start", "exec"} /\ last.stdout # 0 - 1) =>
        /\ last.stdout <= MAX_OUTPUT_LENGTH
        /\ last.stderr <= MAX_OUTPUT_LENGTH

C9_Witness ==
    /\ last.op = "exec"
    /\ last.stdout = MAX_OUTPUT_LENGTH
    /\ last.stderr = 0

\* C10: a start for a profile of the catalog, made while the engine client
\* is unavailable, is answered with 503 and creates no record.
C10_Unavailable ==
    (last.op = "start" /\ InCatalog(last.name) /\ docker_available = "False")
        => last.code = 503 /\ last.cid = 0

\* C11: in every operation, a tracked container id for which the engine
\* answered 'not found' has no record in the session table when the
\* operation returns.
C11_NotFoundPurged ==
    last.missing \cap DOMAIN active_containers = {}

\* C12: when start answers 500 StartFailed, the container the call ran is
\* not in the engine and the record the call made is not in the session
\* table, for failures of run and for failures after run.
C12_StartFailed ==
    (last.op = "start" /\ last.code = 500 /\ last.status = "start_failed") =>
        \/ last.cid = 0
        \/ last.cid \notin DOMAIN active_containers /\ last.cid \notin DOMAIN containers

\* C13: exec on a container_id that is not in the session table answers 404
\* SessionNotFound, makes no engine call and leaves the session table, the
\* engine and the engine client as they were.
C13_ExecUnknown ==
    [][(last'.op = "exec" /\ ~last'.tracked_before) =>
          /\ last'.code = 404
          /\ last'.status = "not_found"
          /\ last'.calls = {}
          /\ UNCHANGED <<active_containers, containers, docker_client,
                         docker_available>>]_vars

C13_Witness ==
    /\ last.op = "exec"
    /\ ~last.tracked_before
    /\ last.code = 404
    /\ last.cid \notin DOMAIN active_containers
    /\ active_containers # << >>

\* C14: when exec addresses a tracked container and the engine answers that
\* the container is gone, the record is removed and the answer is 404
\* SessionGone; the exec on the same id that follows answers 404
\* SessionNotFound.
C14_ExecGone ==
    /\ (last.op = "exec" /\ last.tracked_before /\ last.raised = "NotFound") =>
          /\ last.code = 404
          /\ last.status = "gone"
          /\ last.cid \notin DOMAIN active_containers
    /\ (last.op = "exec" /\ last.prev = "gone") =>
          last.code = 404 /\ last.status = "not_found"

C14_Witness ==
    /\ last.op = "exec"
    /\ last.prev = "gone"
    /\ last.status = "not_found"

\* C15: when the engine API raises during exec for a reason other than the
\* container being gone, the answer is 500 ExecFailed and the record is
\* still in the session table with the session_id, ttl_seconds and
\* persistent it had.
C15_ExecFailed ==
    (last.op = "exec" /\ last.tracked_before /\ last.raised = "APIError") =>
        /\ last.code = 500
        /\ last.status = "exec_failed"
        /\ last.cid \in DOMAIN active_containers
        /\ active_containers[last.cid].session_id = last.before[1].session_id
        /\ active_containers[last.cid].ttl_seconds = last.before[1].ttl_seconds
        /\ active_containers[last.cid].persistent = last.before[1].persistent

C15_Witness ==
    /\ last.op = "exec"
    /\ last.raised = "APIError"
    /\ last.code = 500
    /\ last.cid \in DOMAIN active_containers
    /\ active_containers[last.cid].ttl_seconds = 5

\* C16: a start answered 403 ProfileNotAllowed made no engine call and left
\* the session table, the engine's containers and the engine client as they
\* were; the engine is called only for names of the catalog.
C16_Rejected ==
    /\ [][(last'.op = "start" /\ last'.code = 403) =>
             /\ last'.calls = {}
             /\ UNCHANGED <<active_containers, containers, run_options, next_id,
                            docker_client, docker_available>>]_vars
    /\ []((last.op = "start" /\ last.calls # {}) => InCatalog(last.name))

C16_Witness ==
    /\ last.op = "start"
    /\ last.code = 403
    /\ last.name = "rogue"
    /\ active_containers # << >>

\* C17: with a registry file that cannot be read or parsed the profile list
\* is empty, every start is answered 403 ProfileNotAllowed without an engine
\* call, and no container and no record ever exists.
C17_Unreadable ==
    ~registry.readable =>
        /\ last.op = "start" => last.code = 403 /\ last.cid = 0 /\ last.calls = {}
        /\ last.op = "list" => last.code = 200 /\ last.profiles = {}
        /\ active_containers = << >>
        /\ containers = << >>

C17_Witness ==
    /\ ~registry.readable
    /\ last.op = "start"
    /\ last.code = 403
    /\ last.name = "python-sandbox"

\* C18: every record of the session table has 0 <= ttl_seconds <=
\* MAX_SESSION_TTL, whatever ttl_seconds start was asked for and whatever
\* extend_seconds extend was asked for.
C18_TtlRange ==
    \A c \in DOMAIN active_containers :
        /\ 0 <= active_containers[c].ttl_seconds
        /\ active_containers[c].ttl_seconds <= MAX_SESSION_TTL

\* the profile asks for network isolation: security.network_mode is 'none'
\* or absent
ProfileIsolated(name) ==
    registry.doc[1].containers[1][name][1].network_mode \in {None, Some("none")}

\* C19: a container is run with network_mode 'none' exactly when its profile
\* asks for isolation and enable_ttyd is false, and every record with
\* ttyd_enabled belongs to a container run without network_mode 'none' and
\* with port 7681 published.
C19_Network ==
    /\ (last.op = "start" /\ last.cid # 0) =>
          (run_options[last.cid].network_mode = Some("none")
              <=> (ProfileIsolated(last.name) /\ ~last.enable_ttyd))
    /\ \A c \in DOMAIN active_containers :
          active_containers[c].ttyd_enabled =>
              /\ run_options[c].network_mode = None
              /\ run_options[c].ports

C19_Witness ==
    /\ last.op = "start"
    /\ last.enable_ttyd
    /\ last.name = "python-sandbox"
    /\ last.cid \in DOMAIN active_containers
    /\ active_containers[last.cid].ttyd_enabled
    /\ run_options[last.cid].network_mode = None

\* C20 (as claimed): when the shutdown sweep has run, the reaper task has
\* ended, the session table is empty and no container that was tracked is
\* running.
C20_Shutdown ==
    last.op = "shutdown" =>
        /\ cleanup_task # "sleeping"
        /\ active_containers = << >>
        /\ \A c \in DOMAIN last.before[1] : ~Running(c)

\* C20 (amended): the reaper task has ended before the shutdown sweep starts
\* and makes no tick afterwards; when the sweep has run the session table is
\* empty and every container the sweep reports as stopped is gone from the
\* engine.
C20_ShutdownSwept ==
    /\ [][last'.op = "shutdown" => cleanup_task = "done"]_vars
    /\ [][cleanup_task # "sleeping" => last'.op # "reaper"]_vars
    /\ [](last.op = "shutdown" =>
            /\ active_containers = << >>
            /\ \A c \in last.stopped : c \notin DOMAIN containers)

C20_Witness ==
    /\ last.op = "shutdown"
    /\ last.stopped # {}
    /\ \E c \in DOMAIN last.before[1] : Running(c)

\* C24: a successful start answers with a "session" object exactly when
\* keep_alive was asked; the object's session_id and ttl_seconds are those of
\* the record the call put in the table under the returned container_id, and
\* a one-shot start answers with no session
C24_Session ==
    [][(last = NoResponse /\ last'.op = "start" /\ last'.code = 200) =>
          /\ (last'.session # None) <=> last'.keep_alive
          /\ last'.keep_alive =>
                /\ last'.cid \notin DOMAIN active_containers
                /\ last'.cid \in DOMAIN active_containers'
                /\ last'.session[1].session_id = active_containers'[last'.cid].session_id
                /\ last'.session[1].ttl_seconds = active_containers'[last'.cid].ttl_seconds
                /\ last'.session[1].persistent]_vars

C24_Witness ==
    /\ last.op = "start"
    /\ last.code = 200
    /\ last.keep_alive
    /\ last.session # None
    /\ last.cid \in DOMAIN active_containers
    /\ last.session[1].ttl_seconds = MAX_SESSION_TTL

\* C21: a cleanup leaves no record that was tracked when it was called; its
\* "stopped" list is exactly the tracked ids whose container the engine
\* stopped and removed in this call, "count" is the length of that list, and
\* an id whose stop or remove failed is untracked without being listed
C21_CleanupStopped ==
    [][(last = NoResponse /\ last'.op = "cleanup") =>
          /\ DOMAIN active_containers \cap DOMAIN active_containers' = {}
          /\ last'.stopped = {c \in DOMAIN active_containers :
                                 c \in DOMAIN containers /\ c \notin DOMAIN containers'}
          /\ last'.count = Cardinality(last'.stopped)
          /\ \A c \in DOMAIN containers' \cap DOMAIN active_containers :
                c \notin last'.stopped /\ c \notin DOMAIN active_containers']_vars

C21_Witness ==
    /\ last.op = "cleanup"
    /\ last.count = 1
    /\ Cardinality(DOMAIN last.before[1]) = 2
    /\ \E c \in DOMAIN last.before[1] : c \in DOMAIN containers /\ c \notin last.stopped
    /\ active_containers = << >>

\* C22: status, list_sessions and get_session each drop the records of their
\* snapshot whose container is gone from the engine: after a successful call
\* such a record is neither in the table nor in the answer
C22_ReadersPurge ==
    [][(last = NoResponse /\ last'.op \in {"status", "sessions", "session"}
          /\ last'.code = 200) =>
          \A c \in DOMAIN active_containers \ DOMAIN containers :
              /\ c \notin DOMAIN active_containers'
              /\ c \notin DOMAIN last'.listing]_vars

\* C25: extend on a session of the table stores min(ttl_seconds + delta,
\* MAX_SESSION_TTL) and the current time on that record, answers with the
\* stored value and leaves every other record as it was; for an unknown
\* session it answers 404 and the table is unchanged
C25_Extend ==
    [][(last = NoResponse /\ last'.op = "extend") =>
          LET found == {c \in DOMAIN active_containers :
                           active_containers[c].session_id = last'.sid}
          IN  IF found = {}
              THEN last'.code = 404 /\ active_containers' = active_containers
              ELSE \E c \in found :
                     /\ last'.code = 200
                     /\ last'.new_ttl = Min(active_containers[c].ttl_seconds + last'.delta,
                                            MAX_SESSION_TTL)
                     /\ active_containers' =
                           [active_containers EXCEPT ![c].ttl_seconds = last'.new_ttl,
                                                     ![c].last_activity = now]]_vars

C25_Witness ==
    /\ last.op = "extend"
    /\ last.code = 200
    /\ Cardinality(DOMAIN active_containers) = 2
    /\ active_containers[last.cid].ttl_seconds = last.new_ttl
    /\ active_containers[last.cid].last_activity = now
    /\ last.new_ttl = MAX_SESSION_TTL
    /\ now > 0

\* C26: the status of a stop follows from what the engine answered: no client
\* gives "no_docker", a container that is not found "already_stopped", an API
\* error "error_but_cleaned", and otherwise "stopped", with a running
\* container stopped and removed and an exited one at most removed; the id is
\* untracked in every case and the answer is never a 5xx
C26_StopStatus ==
    [][(last = NoResponse /\ last'.op = "stop") =>
          LET c == last'.cid IN
          /\ c \notin DOMAIN active_containers'
          /\ last'.code < 500
          /\ last'.status =
                IF docker_available' = "False" THEN "no_docker"
                ELSE IF last'.raised = "NotFound" THEN "already_stopped"
                ELSE IF last'.raised = "APIError" THEN "error_but_cleaned"
                ELSE "stopped"
          /\ last'.status = "no_docker" => containers' = containers
          /\ last'.status = "already_stopped" => c \notin DOMAIN containers'
          /\ last'.status = "stopped" =>
                /\ c \in DOMAIN containers
                /\ containers[c] = "running" => c \notin DOMAIN containers'
                /\ containers[c] = "exited" =>
                      containers' \in {containers, Del(containers, c)}]_vars

C26_Witness ==
    /\ last.op = "stop"
    /\ last.status = "error_but_cleaned"
    /\ last.tracked_before
    /\ last.cid \in DOMAIN containers
    /\ last.cid \notin DOMAIN active_containers

\* C30: the remaining_seconds reported for a persistent record is
\* max(0, ttl_seconds - (now - last_activity)), the elapsed time counted in
\* full seconds however long it is
C30_Remaining ==
    (last.op \in {"status", "sessions", "session"} /\ last.code = 200) =>
        \A c \in DOMAIN last.listing :
            (last.listing[c] # None /\ last.before[1][c].persistent) =>
                last.listing[c][1] =
                    Max(0, last.before[1][c].ttl_seconds
                             - (now - last.before[1][c].last_activity))

\* C23: the engine client is connected once: a verdict "unavailable" is
\* never replaced, from_env is only called while there is neither a verdict
\* nor a client, and a verdict "available" and its client stay as they are
C23_Singleton ==
    [][/\ docker_available = "False" => docker_available' = "False"
       /\ docker_available = "True" => docker_available' = "True" /\ docker_client'
       /\ \A t \in Threads :
             (threads[t].pc = "connect" /\ threads'[t].pc # "connect") =>
                 docker_available = "None" /\ ~docker_client]_vars

\* C27: no step other than the track_container of a start adds a key to the
\* session table: a touch, an extend, a reader, a stop or a purge that runs
\* while another thread removes records leaves an absent record absent
C27_OnlyStartAdds ==
    [][\/ DOMAIN active_containers' \subseteq DOMAIN active_containers
       \/ \E t \in Threads :
             /\ threads[t].pc = "idle"
             /\ threads'[t].op = "start"
             /\ threads'[t].cid \notin DOMAIN active_containers
             /\ DOMAIN active_containers' = DOMAIN active_containers \cup {threads'[t].cid}]_vars

C27_Witness ==
    \E t \in Threads, u \in Threads :
        /\ At(t, "exec", "run")
        /\ threads[t].cid \notin DOMAIN active_containers
        /\ threads[u].op \in {"stop", "cleanup", "close"}
        /\ threads[u].pc = "done"
        /\ active_containers # << >>

\* C28: the records a reader got from get_tracked_containers() show, when it
\* reads them, the values they had when the snapshot was taken
C28_DefensiveCopy ==
    \A t \in Threads :
        (threads[t].op \in ReaderOps /\ threads[t].pc \in {"purge", "done"}) =>
            threads[t].seen = threads[t].taken

\* C29: a start that passed the authorization is not answered with an
\* internal error for the registry, and the options of its run call are
\* those of the profile that was authorized
C29_CoherentRegistry ==
    \A t \in Threads :
        (threads[t].op = "start" /\ threads[t].authorized # None) =>
            /\ ~(threads[t].pc = "done" /\ threads[t].code = 500 /\ threads[t].config = None)
            /\ threads[t].config # None => threads[t].config = threads[t].authorized
            /\ threads[t].code = 200 =>
                  run_options[threads[t].cid] =
                      container_options(threads[t].authorized[1], FALSE)

\* C40: an exec on a tracked container that finds the engine client
\* unavailable is answered 503, and the record stays in the table
C40_ExecUnavailable ==
    (last.op = "exec" /\ last.tracked_before /\ last.raised = "HTTPException") =>
        /\ last.code = 503
        /\ last.cid \in DOMAIN active_containers

\* C35: a stop that names an id the table does not hold leaves the engine's
\* containers as they are
C35_StopTrackedOnly ==
    [][(last'.op = "stop" /\ last' # last /\ ~last'.tracked_before) =>
          containers' = containers]_vars

\* C36: while no request is being served, every running container has a
\* record in the session table
C36_NoOrphans ==
    last = NoResponse =>
        \A c \in DOMAIN containers :
            containers[c] = "running" => c \in DOMAIN active_containers

\* C32: the table a reaper tick works on holds no record with
\* persistent = false
C32_ReaperSnapshot ==
    [][(last = NoResponse /\ last'.op = "reaper" /\ last'.status = "ran") =>
          \A c \in DOMAIN active_containers : active_containers[c].persistent]_vars

\* the handlers that take a record out of the table on request
RemovalOps == {"stop", "close", "cleanup", "status", "shutdown"}

\* the first half of C33: a successful start without code and without
\* keep_alive calls neither exec_run nor stop or remove, its container runs
\* and its record, with persistent = false, is in the table
OneShotKept ==
    (last = NoResponse /\ last'.op = "start" /\ last'.code = 200
        /\ ~last'.keep_alive /\ last'.code_kind # "text") =>
        /\ last'.calls \cap {"put_archive", "exec_run", "stop", "remove"} = {}
        /\ last'.cid \in DOMAIN containers'
        /\ containers'[last'.cid] = "running"
        /\ last'.cid \in DOMAIN active_containers'
        /\ ~active_containers'[last'.cid].persistent

C31_Timestamps ==
    \A c \in DOMAIN active_containers :
        active_containers[c].persistent =>
            /\ active_containers[c].started_at <= active_containers[c].last_activity
            /\ active_containers[c].last_activity <= now

C31_Witness ==
    /\ last.op \in {"exec", "extend"}
    /\ last.code = 200
    /\ last.cid \in DOMAIN active_containers
    /\ active_containers[last.cid].persistent
    /\ active_containers[last.cid].started_at < active_containers[last.cid].last_activity
    /\ active_containers[last.cid].last_activity = now

\* C34: a tick that finds the engine client removes every expired record it
\* gets to, whether or not the engine stopped and removed the container, and
\* goes on to the records after it; a tick that raises leaves the reaper
\* task running, which ends only when shutdown cancels it
C34_ReaperSwallows ==
    [][/\ (last = NoResponse /\ last'.op = "reaper") =>
             /\ cleanup_task' = "sleeping"
             /\ last'.status = "ran" =>
                   \A c \in reached(active_containers) :
                       (active_containers[c].persistent
                           /\ now > active_containers[c].last_activity
                                      + active_containers[c].ttl_seconds) =>
                           c \notin DOMAIN active_containers'
       /\ (cleanup_task = "sleeping" /\ cleanup_task' # "sleeping") =>
             (cleanup_task' = "done" /\ last' = last /\ last = NoResponse)]_vars

C34_Witness ==
    /\ last.op = "reaper"
    /\ last.raised = "OverflowError"
    /\ cleanup_task = "sleeping"
    /\ 1 \notin DOMAIN active_containers
    /\ 1 \in DOMAIN containers
    /\ containers[1] = "running"
    /\ 2 \in DOMAIN active_containers

\* ------------------------------------------------------------ C37
\* C37: a start whose engine run succeeded finds its own record when it
\* reads the session id back: whatever a concurrent stop, cleanup or reaper
\* tick does between the insert and the read-back, the start does not end
\* in a 500 with its container running and untracked.
C37_ReadBack ==
    \A t \in Threads :
        (At(t, "start", "done") /\ threads[t].cid # 0 /\ threads[t].code = 500)
        => ~(/\ threads[t].cid \in DOMAIN containers
             /\ containers[threads[t].cid] = "running"
             /\ threads[t].cid \notin DOMAIN active_containers)

\* ------------------------------------------------------------ C38
\* the session of record c was extended or touched by a handler other than t
\* that is past the write
Refreshed(t, c) ==
    \E u \in Threads \ {t} :
        /\ threads[u].cid = c
        /\ \/ At(u, "extend", "done") /\ threads[u].code = 200
           \/ At(u, "exec", "run")
           \/ At(u, "exec", "done")

\* C38: the reaper never stops the container of a persistent session that
\* is unexpired at that moment: when an extend or an exec touch on the
\* session has returned and now <= last_activity + ttl_seconds holds for the
\* live record, the reaper's eviction step does not take place.
C38_ReaperLive ==
    [][\A t \in Threads :
          (/\ At(t, "reaper", "evict")
           /\ threads'[t].pc = "untrack"
           /\ threads[t].cid \in DOMAIN active_containers
           /\ Refreshed(t, threads[t].cid))
          => expired(active_containers[threads[t].cid], now)]_vars

\* ------------------------------------------------------------ C39
\* C39: exec never issues an engine exec for a container id that is
\* untracked at that moment: the step that calls exec_run is taken with the
\* record in the table.
C39_ExecTracked ==
    [][\A t \in Threads :
          (At(t, "exec", "run") /\ threads'[t].got = "exec_run")
          => threads[t].cid \in DOMAIN active_containers]_vars

====
